---- MODULE Spec2Model ----
(***************************************************************************)
(* getALPAPR (projects/amped/functions/liquidity/getALPAPR.ts): one async  *)
(* function that validates the chain name, reads totalSupply and           *)
(* tokensPerInterval from two contracts, derives the base APR and returns  *)
(* a result.  The model has three layers:                                  *)
(*   - JavaScript BigInt and Number arithmetic at full width (BigInt is    *)
(*     arbitrary precision, Number is an IEEE-754 double with a 53-bit     *)
(*     significand), written on bit sequences;                             *)
(*   - the function body cut at its await points, one action per segment   *)
(*     of synchronous code, for several concurrent invocations (Spec);     *)
(*   - the arithmetic of lines 56-71 as a pure function applied to drawn   *)
(*     inputs (SpecCalc).                                                  *)
(***************************************************************************)
EXTENDS Integers, Sequences, FiniteSets, TLC

(***************************************************************************)
(* BigInt: a sequence of limbs in base 2^15, least significant first,      *)
(* whose last limb is not 0; <<>> is 0n.  Only non-negative values occur   *)
(* (uint256 reads, and products and quotients of them).  BigInt has no     *)
(* width: nothing wraps.                                                   *)
(***************************************************************************)
LimbBits == 15

Base == 2 ^ LimbBits

Limb(a, i) == IF i >= 1 /\ i <= Len(a) THEN a[i] ELSE 0

Norm(a) ==
    LET used == {i \in 1..Len(a) : a[i] # 0}
    IN IF used = {} THEN <<>>
       ELSE SubSeq(a, 1, CHOOSE i \in used : \A j \in used : j <= i)

FromInt(n) == Norm(<<n % Base, (n \div Base) % Base, n \div (Base * Base)>>)

\* -1, 0 or 1 as a < b, a = b, a > b
BigCmp(a, b) ==
    IF Len(a) # Len(b) THEN (IF Len(a) > Len(b) THEN 1 ELSE -1)
    ELSE IF a = b THEN 0
    ELSE LET i == CHOOSE k \in 1..Len(a) :
                      a[k] # b[k] /\ \A j \in (k + 1)..Len(a) : a[j] = b[j]
         IN IF a[i] > b[i] THEN 1 ELSE -1

\* Limbs lo..hi of a + b, c the carry into limb lo; a range is split in two
\* and its lower half is done first.
RECURSIVE AddFrom(_, _, _, _, _)
AddFrom(a, b, lo, hi, c) ==
    LET mid == lo + (hi - lo) \div 2
        Join(lower, upper) == [limbs |-> lower.limbs \o upper.limbs, carry |-> upper.carry]
        Upper(lower) == Join(lower, AddFrom(a, b, mid + 1, hi, lower.carry))
    IN IF lo = hi
       THEN [limbs |-> <<(Limb(a, lo) + Limb(b, lo) + c) % Base>>,
             carry |-> (Limb(a, lo) + Limb(b, lo) + c) \div Base]
       ELSE Upper(AddFrom(a, b, lo, mid, c))

BigAdd(a, b) ==
    LET Sum(r) == Norm(Append(r.limbs, r.carry))
    IN IF a = <<>> THEN b
       ELSE IF b = <<>> THEN a
       ELSE Sum(AddFrom(a, b, 1, IF Len(a) >= Len(b) THEN Len(a) ELSE Len(b), 0))

\* Limbs lo..hi of a - b, c the borrow from limb lo.
RECURSIVE SubFrom(_, _, _, _, _)
SubFrom(a, b, lo, hi, c) ==
    LET mid == lo + (hi - lo) \div 2
        Join(lower, upper) == [limbs |-> lower.limbs \o upper.limbs, carry |-> upper.carry]
        Upper(lower) == Join(lower, SubFrom(a, b, mid + 1, hi, lower.carry))
    IN IF lo = hi
       THEN [limbs |-> <<(a[lo] - Limb(b, lo) - c) % Base>>,
             carry |-> IF a[lo] - Limb(b, lo) - c < 0 THEN 1 ELSE 0]
       ELSE Upper(SubFrom(a, b, lo, mid, c))

\* a - b for a >= b
BigSub(a, b) == IF b = <<>> THEN a ELSE Norm(SubFrom(a, b, 1, Len(a), 0).limbs)

ShiftLimbs(a, k) == IF a = <<>> THEN <<>> ELSE [i \in 1..k |-> 0] \o a

\* Limbs lo..hi of a * s for one limb s, c the carry into limb lo.
RECURSIVE MulSmallFrom(_, _, _, _, _)
MulSmallFrom(a, s, lo, hi, c) ==
    LET mid == lo + (hi - lo) \div 2
        Join(lower, upper) == [limbs |-> lower.limbs \o upper.limbs, carry |-> upper.carry]
        Upper(lower) == Join(lower, MulSmallFrom(a, s, mid + 1, hi, lower.carry))
    IN IF lo = hi
       THEN [limbs |-> <<(a[lo] * s + c) % Base>>, carry |-> (a[lo] * s + c) \div Base]
       ELSE Upper(MulSmallFrom(a, s, lo, mid, c))

MulSmall(a, s) ==
    LET Product(r) == Norm(Append(r.limbs, r.carry))
    IN IF a = <<>> \/ s = 0 THEN <<>> ELSE Product(MulSmallFrom(a, s, 1, Len(a), 0))

\* a times limbs lo..hi of b, in place; the range is halved rather than walked
RECURSIVE MulFrom(_, _, _, _)
MulFrom(a, b, lo, hi) ==
    IF lo > hi THEN <<>>
    ELSE IF lo = hi THEN ShiftLimbs(MulSmall(a, b[lo]), lo - 1)
    ELSE BigAdd(MulFrom(a, b, lo, lo + (hi - lo) \div 2),
                MulFrom(a, b, lo + (hi - lo) \div 2 + 1, hi))

BigMul(a, b) ==
    IF Len(a) >= Len(b) THEN MulFrom(a, b, 1, Len(b)) ELSE MulFrom(b, a, 1, Len(a))

RECURSIVE Pow10(_)
Pow10(k) ==
    IF k < 5 THEN <<10 ^ k>>
    ELSE LET h == Pow10(k \div 2)
         IN IF h = <<>> THEN <<>>
            ELSE MulSmall(BigMul(h, h), IF k % 2 = 0 THEN 1 ELSE 10)

SmallBitLen(n) == CHOOSE k \in 0..LimbBits : n < 2 ^ k /\ (k = 0 \/ n >= 2 ^ (k - 1))

\* the number of bits of a; bit 1 is the least significant
BitLen(a) ==
    IF a = <<>> THEN 0 ELSE LimbBits * (Len(a) - 1) + SmallBitLen(a[Len(a)])

TestBit(a, i) ==
    (Limb(a, (i - 1) \div LimbBits + 1) \div 2 ^ ((i - 1) % LimbBits)) % 2

ShiftLeft(a, k) ==
    LET ls == k \div LimbBits
        bs == k % LimbBits
    IN IF a = <<>> THEN <<>>
       ELSE Norm([i \in 1..(Len(a) + ls + 1) |->
                    (Limb(a, i - ls) % 2 ^ (LimbBits - bs)) * 2 ^ bs
                    + Limb(a, i - ls - 1) \div 2 ^ (LimbBits - bs)])

ShiftRight(a, k) ==
    LET ls == k \div LimbBits
        bs == k % LimbBits
    IN IF ls >= Len(a) THEN <<>>
       ELSE Norm([i \in 1..(Len(a) - ls) |->
                    a[i + ls] \div 2 ^ bs
                    + (Limb(a, i + ls + 1) % 2 ^ bs) * 2 ^ (LimbBits - bs)])

\* The limb q with d * q <= r < d * (q + 1), for r < d * Base, counted down
\* from an estimate that is not below it.
RECURSIVE QuotLimb(_, _, _)
QuotLimb(r, d, estimate) ==
    IF BigCmp(MulSmall(d, estimate), r) <= 0 THEN estimate
    ELSE QuotLimb(r, d, estimate - 1)

\* Long division of limbs lo..hi of n, from hi downwards, r the remainder so
\* far; quot holds limbs lo..hi of the quotient.  The range is halved rather
\* than walked.  d's last limb is at least Base / 2, so that the estimate from
\* the leading limbs is at most 2 above the quotient limb.
RECURSIVE DivFrom(_, _, _, _, _)
DivFrom(n, d, hi, lo, r) ==
    LET mid == lo + (hi - lo) \div 2
        Estimate(r2) ==
            LET est == (Limb(r2, Len(d) + 1) * Base + Limb(r2, Len(d))) \div d[Len(d)]
            IN IF est > Base - 1 THEN Base - 1 ELSE est
        Subtract(r2, ql) == [quot |-> <<ql>>, rem |-> BigSub(r2, MulSmall(d, ql))]
        Divide(r2) ==
            Subtract(r2, IF BigCmp(r2, d) < 0 THEN 0 ELSE QuotLimb(r2, d, Estimate(r2)))
        Join(upper, lower) == [quot |-> lower.quot \o upper.quot, rem |-> lower.rem]
        Lower(upper) ==
            IF upper.rem = <<>> /\ \A j \in lo..mid : n[j] = 0
            THEN [quot |-> [j \in 1..(mid - lo + 1) |-> 0] \o upper.quot, rem |-> <<>>]
            ELSE Join(upper, DivFrom(n, d, mid, lo, upper.rem))
    IN IF hi = lo
       THEN Divide(IF r = <<>> /\ n[hi] = 0 THEN <<>> ELSE <<n[hi]>> \o r)
       ELSE Lower(DivFrom(n, d, hi, mid + 1, r))

\* Short division of limbs lo..hi of n by one limb s, r < s the remainder so
\* far.
RECURSIVE DivSmall(_, _, _, _, _)
DivSmall(n, s, hi, lo, r) ==
    LET mid == lo + (hi - lo) \div 2
        Join(upper, lower) == [quot |-> lower.quot \o upper.quot, rem |-> lower.rem]
        Lower(upper) ==
            IF upper.rem = 0 /\ \A j \in lo..mid : n[j] = 0
            THEN [quot |-> [j \in 1..(mid - lo + 1) |-> 0] \o upper.quot, rem |-> 0]
            ELSE Join(upper, DivSmall(n, s, mid, lo, upper.rem))
    IN IF hi = lo
       THEN [quot |-> <<(r * Base + n[hi]) \div s>>, rem |-> (r * Base + n[hi]) % s]
       ELSE Lower(DivSmall(n, s, hi, mid + 1, r))

\* truncating quotient and remainder, d # 0
BigDivMod(n, d) ==
    LET sh == LimbBits - SmallBitLen(d[Len(d)])
        Unshifted(dm) == [quot |-> Norm(dm.quot), rem |-> ShiftRight(dm.rem, sh)]
        Shifted(sn) == Unshifted(DivFrom(sn, ShiftLeft(d, sh), Len(sn), 1, <<>>))
        Short(dm) == [quot |-> Norm(dm.quot), rem |-> FromInt(dm.rem)]
    IN IF n = <<>> THEN [quot |-> <<>>, rem |-> <<>>]
       ELSE IF Len(d) = 1 THEN Short(DivSmall(n, d[1], Len(n), 1, 0))
       ELSE Shifted(ShiftLeft(n, sh))

(***************************************************************************)
(* Number: a finite non-negative IEEE-754 double, [m, e] with value        *)
(* m * 2^e, m a BigInt of at most SignificandBits bits, odd unless zero.   *)
(* Every value the function computes lies far inside the normal range      *)
(* (below 2^400, and at least 2^-100 when not zero), so neither overflow   *)
(* nor subnormals occur.                                                   *)
(***************************************************************************)
SignificandBits == 53

Canon(m, e) ==
    IF m = <<>> THEN [m |-> <<>>, e |-> 0]
    ELSE LET tz == CHOOSE k \in 0..(BitLen(m) - 1) :
                       /\ TestBit(m, k + 1) = 1
                       /\ \A j \in 1..k : TestBit(m, j) = 0
         IN [m |-> ShiftRight(m, tz), e |-> e + tz]

\* The double nearest to (a + f) * 2^e0, ties to even, where 0 < f < 1 when
\* sticky and f = 0 otherwise (sticky only with BitLen(a) > SignificandBits).
RoundToDouble(a, sticky, e0) ==
    IF BitLen(a) <= SignificandBits THEN Canon(a, e0)
    ELSE LET k    == BitLen(a) - SignificandBits
             top  == ShiftRight(a, k)
             rest == sticky \/ \E i \in 1..(k - 1) : TestBit(a, i) = 1
             up   == TestBit(a, k) = 1 /\ (rest \/ TestBit(top, 1) = 1)
         IN Canon(IF up THEN BigAdd(top, <<1>>) ELSE top, e0 + k)

\* Number(bigint)
ToNumber(a) == RoundToDouble(a, FALSE, 0)

\* BigInt(number), for an integer-valued number
ToBigInt(x) == ShiftLeft(x.m, x.e)

\* x / y on Numbers, y # 0: the correctly rounded quotient
NumDiv(x, y) ==
    IF x.m = <<>> THEN [m |-> <<>>, e |-> 0]
    ELSE LET k == SignificandBits + 3 + BitLen(y.m) - BitLen(x.m)
             Rounded(dm) == RoundToDouble(dm.quot, dm.rem # <<>>, x.e - y.e - k)
         IN Rounded(BigDivMod(ShiftLeft(x.m, k), y.m))

DigitChar == <<"0", "1", "2", "3", "4", "5", "6", "7", "8", "9">>

\* the decimal digits of n < 10^4, most significant first; four of them when
\* padded
RECURSIVE SmallDigits(_, _, _)
SmallDigits(n, width, padded) ==
    IF width = 0 \/ (n = 0 /\ ~padded) THEN <<>>
    ELSE SmallDigits(n \div 10, width - 1, padded) \o <<DigitChar[(n % 10) + 1]>>

RECURSIVE DigitsOf(_)
DigitsOf(a) ==
    LET Digits(dm) ==
            IF dm.quot = <<>> THEN SmallDigits(Limb(dm.rem, 1), 4, FALSE)
            ELSE DigitsOf(dm.quot) \o SmallDigits(Limb(dm.rem, 1), 4, TRUE)
    IN Digits(BigDivMod(a, <<10000>>))

\* bigint.toString(): the decimal digits, most significant first
BigToString(a) == IF a = <<>> THEN <<"0">> ELSE DigitsOf(a)

\* number.toFixed(2).  At 1e21 and above toFixed gives up fixed notation and
\* returns String(x), exponent notation ("3.1536e+24"); that string is kept
\* as the value it denotes.  Below, n is the integer with n / 100 nearest to x
\* (the larger on a tie) and the string is n's digits with a point before the
\* last two.
ToFixed2(x) ==
    IF x.e >= 0 /\ BigCmp(ToBigInt(x), Pow10(21)) >= 0
    THEN [notation |-> "exponent", text |-> <<>>, value |-> x]
    ELSE LET Point(p) ==
                 [notation |-> "fixed",
                  text |-> SubSeq(p, 1, Len(p) - 2) \o <<".">>
                           \o SubSeq(p, Len(p) - 1, Len(p)),
                  value |-> x]
             Pad(d) == Point(IF Len(d) = 1 THEN <<"0", "0">> \o d
                             ELSE IF Len(d) = 2 THEN <<"0">> \o d ELSE d)
             Hundredths(c) ==
                 IF x.e >= 0 THEN ShiftLeft(c, x.e)
                 ELSE ShiftRight(BigAdd(ShiftLeft(c, 1), ShiftLeft(<<1>>, 0 - x.e)),
                                 1 - x.e)
         IN Pad(BigToString(Hundredths(MulSmall(x.m, 100))))

(***************************************************************************)
(* constants.js is not among the sources.  SECONDS_PER_YEAR is 365 days;   *)
(* PRECISION is a Number (line 60 divides a Number by it) with an integer  *)
(* value (line 60 passes it to BigInt), taken as the literal 1e30, i.e.    *)
(* the double nearest to 10^30.                                            *)
(***************************************************************************)
SECONDS_PER_YEAR == 31536000

PRECISION == ToNumber(Pow10(30))

(***************************************************************************)
(* Lines 56-71 as functions of the two values read.                        *)
(***************************************************************************)
\* the low 256 bits of a: what a uint256 would keep
Uint256(a) == BigDivMod(a, ShiftLeft(<<1>>, 256)).rem

\* Line 57 as it would be on uint256 values rather than BigInts: the product
\* wraps at 2^256.
YearlyRewardsUint256(tokensPerInterval) ==
    Uint256(BigMul(tokensPerInterval, FromInt(SECONDS_PER_YEAR)))

\* line 57
YearlyRewards(tokensPerInterval) ==
    BigMul(tokensPerInterval, FromInt(SECONDS_PER_YEAR))

\* Line 60 with the scaled product wrapping at 2^256.
BaseAprUint256(yearlyRewards, totalSupply) ==
    NumDiv(ToNumber(BigDivMod(Uint256(BigMul(BigMul(yearlyRewards, ToBigInt(PRECISION)),
                                             <<100>>)),
                              totalSupply).quot),
           PRECISION)

\* line 60, totalSupply # 0n
BaseApr(yearlyRewards, totalSupply) ==
    NumDiv(ToNumber(BigDivMod(BigMul(BigMul(yearlyRewards, ToBigInt(PRECISION)),
                                     <<100>>),
                              totalSupply).quot),
           PRECISION)

\* A thrown JavaScript value: an Error with its message, or anything else.
RangeErrorDivisionByZero == [isError |-> TRUE, message |-> "Division by zero"]

NoError == [isError |-> FALSE, message |-> ""]

Undefined == <<-1>>

UndefinedNumber == [m |-> Undefined, e |-> 0]

\* Lines 57-60 with a division that throws nothing: by 0n it gives 0.
CalculateUnguarded(totalSupply, tokensPerInterval) ==
    [threw |-> FALSE, error |-> NoError,
     yearlyRewards |-> YearlyRewards(tokensPerInterval),
     baseApr |-> IF totalSupply = <<>> THEN [m |-> <<>>, e |-> 0]
                 ELSE BaseApr(YearlyRewards(tokensPerInterval), totalSupply)]

\* lines 57-60: BigInt division by 0n throws a RangeError
Calculate(totalSupply, tokensPerInterval) ==
    LET Line60(yearlyRewards) ==
            IF totalSupply = <<>>
            THEN [threw |-> TRUE, error |-> RangeErrorDivisionByZero,
                  yearlyRewards |-> yearlyRewards, baseApr |-> UndefinedNumber]
            ELSE [threw |-> FALSE, error |-> NoError,
                  yearlyRewards |-> yearlyRewards,
                  baseApr |-> BaseApr(yearlyRewards, totalSupply)]
    IN Line60(YearlyRewards(tokensPerInterval))

\* lines 65-70: the object given to JSON.stringify, field by field
ResultJson(baseApr, yearlyRewards, totalSupply, tokensPerInterval) ==
    [baseApr           |-> ToFixed2(baseApr),
     yearlyRewards     |-> BigToString(yearlyRewards),
     totalSupply       |-> BigToString(totalSupply),
     tokensPerInterval |-> BigToString(tokensPerInterval)]

NoJson ==
    [baseApr           |-> [notation |-> "", text |-> <<>>, value |-> UndefinedNumber],
     yearlyRewards     |-> <<>>,
     totalSupply       |-> <<>>,
     tokensPerInterval |-> <<>>]

(***************************************************************************)
(* The result of a call.  toResult(data, error) gives {success: !error,    *)
(* data}; data is kept as the message, word by word, for a failure and as  *)
(* the JSON fields for a success.  The promise an async function returns   *)
(* is pending, fulfilled with such a result, or rejected with the value    *)
(* thrown.                                                                 *)
(***************************************************************************)
ToResult(message, json, error) ==
    [state |-> "fulfilled", success |-> ~error, message |-> message,
     json |-> json, reason |-> NoError]

Pending ==
    [state |-> "pending", success |-> FALSE, message |-> <<>>, json |-> NoJson,
     reason |-> NoError]

Rejected(error) ==
    [state |-> "rejected", success |-> FALSE, message |-> <<>>, json |-> NoJson,
     reason |-> error]

\* Line 24 without the interpolated name.
NetworkNotSupportedUnnamed(chainName) ==
    ToResult(<<"Network", "not", "supported">>, NoJson, TRUE)

\* line 24
NetworkNotSupported(chainName) ==
    ToResult(<<"Network", chainName, "not", "supported">>, NoJson, TRUE)

\* line 27
OnlySupportedOnSonic ==
    ToResult(<<"This", "function", "is", "only", "supported", "on", "Sonic", "chain">>,
             NoJson, TRUE)

\* Lines 72-77 with a catch block that throws the error on.
CatchRethrow(error) == Rejected(error)

\* lines 72-77
Catch(error) ==
    IF error.isError
    THEN ToResult(<<"Failed to get ALP APR information:", error.message>>, NoJson, TRUE)
    ELSE ToResult(<<"Failed to get ALP APR information:", "Unknown error">>, NoJson, TRUE)

\* lines 64-71
Success(baseApr, yearlyRewards, totalSupply, tokensPerInterval) ==
    ToResult(<<>>, ResultJson(baseApr, yearlyRewards, totalSupply, tokensPerInterval),
             FALSE)

(***************************************************************************)
(* What the function is given and what it calls.                           *)
(***************************************************************************)
\* NETWORKS.SONIC (line 15: the chain name must be "sonic")
SONIC == "sonic"

ChainNames == {"sonic", "ethereum", "moon"}

\* getChainFromName of the SDK: the chain id of a name it knows, else a
\* falsy value (0 here)
GetChainFromName(chainName) ==
    CASE chainName = "sonic"    -> 146
      [] chainName = "ethereum" -> 1
      [] OTHER                  -> 0

\* the messages of lines 30, 50, 53 and 62
CHECKING == "Checking ALP APR information..."

FETCHING_SUPPLY == "Fetching total supply..."

\* Line 53 with the message of line 50 left in.
FETCHING_SUPPLY_REPEATED == "Fetching total supply..."

FETCHING_TOKENS == "Fetching tokens per interval..."

COMPLETED == "APR calculation completed"

\* what notify, getProvider or a contract read may throw
Throwables ==
    {[isError |-> TRUE, message |-> "execution reverted"],
     [isError |-> FALSE, message |-> "timeout"]}

\* how a call made by the function ends: it returns (a read returns value),
\* or it throws
Outcomes(values) ==
    [threw : {FALSE}, error : {NoError}, value : values]
    \cup [threw : {TRUE}, error : Throwables, value : {<<>>}]

Million == FromInt(1000000)

MaxUint256 == BigSub(ShiftLeft(<<1>>, 256), <<1>>)

(***************************************************************************)
(* State.  Each invocation has its own parameters, its own locals and its  *)
(* own promise; the function has no module-level variable.  pc is the      *)
(* await the invocation is suspended at, inflight the calls it is waiting  *)
(* for, trace what it has called and what came back, in order.             *)
(* calcInput and calcOutput belong to SpecCalc.                            *)
(***************************************************************************)
VARIABLES pc, chainName, chainId, totalSupply, tokensPerInterval,
          yearlyRewards, baseApr, result, trace, inflight,
          calcInput, calcOutput

locals == <<chainId, totalSupply, tokensPerInterval, yearlyRewards, baseApr>>

calls == <<pc, chainName, locals, result, trace, inflight>>

calc == <<calcInput, calcOutput>>

vars == <<calls, calc>>

NumInvocations == 2

Invocations == 1..NumInvocations

\* what totalSupply() and tokensPerInterval() may return
SupplyReads == {<<>>, Million}

TokenReads == {<<1>>, MaxUint256}

Returned == [threw |-> FALSE, error |-> NoError, value |-> <<>>]

Event(op, arg, outcome) ==
    [op |-> op, arg |-> arg, threw |-> outcome.threw, error |-> outcome.error,
     value |-> outcome.value]

Issue(op, arg) == Event(op, arg, Returned)

\* Lines 51 and 54 issued together, as Promise.all would.
ReadsInParallel == <<"totalSupply", "tokensPerInterval">>

\* line 51: the read issued once 'Fetching total supply...' is out
ReadsAtLine51 == <<"totalSupply">>

\* line 54: the read issued once 'Fetching tokens per interval...' is out
ReadsAtLine54 == <<"tokensPerInterval">>

IssueReads(names) == [k \in 1..Len(names) |-> Issue("read", names[k])]

\* A local kept at module level: one cell for every invocation.
AssignShared(local, i, v) == [j \in DOMAIN local |-> v]

\* a local of invocation i takes value v
Assign(local, i, v) == [local EXCEPT ![i] = v]

\* line 20: every invocation has been called and has run nothing yet
Called ==
    /\ pc = [i \in Invocations |-> "called"]
    /\ chainId = [i \in Invocations |-> 0]
    /\ totalSupply = [i \in Invocations |-> Undefined]
    /\ tokensPerInterval = [i \in Invocations |-> Undefined]
    /\ yearlyRewards = [i \in Invocations |-> Undefined]
    /\ baseApr = [i \in Invocations |-> UndefinedNumber]
    /\ result = [i \in Invocations |-> Pending]
    /\ trace = [i \in Invocations |-> <<>>]
    /\ inflight = [i \in Invocations |-> {}]

Init ==
    /\ Called
    /\ chainName \in [Invocations -> ChainNames]
    /\ calcInput = <<>>
    /\ calcOutput = <<>>

\* the promise of invocation i settles with r, after the events es
Settle(i, r, es) ==
    /\ result' = [result EXCEPT ![i] = r]
    /\ pc' = [pc EXCEPT ![i] = "settled"]
    /\ trace' = [trace EXCEPT ![i] = @ \o es]
    /\ inflight' = [inflight EXCEPT ![i] = {}]

\* invocation i goes on to await the calls named, after the events es
Await(i, at, waiting, es) ==
    /\ pc' = [pc EXCEPT ![i] = at]
    /\ trace' = [trace EXCEPT ![i] = @ \o es]
    /\ inflight' = [inflight EXCEPT ![i] = waiting]
    /\ UNCHANGED result

\* lines 21-30: validate the chain, then notify
Validate(i) ==
    /\ pc[i] = "called"
    /\ chainId' = Assign(chainId, i, GetChainFromName(chainName[i]))
    /\ IF GetChainFromName(chainName[i]) = 0
       THEN Settle(i, NetworkNotSupported(chainName[i]), <<>>)
       ELSE IF chainName[i] # SONIC
       THEN Settle(i, OnlySupportedOnSonic, <<>>)
       ELSE Await(i, "notifyChecking", {"notify"}, <<Issue("notify", CHECKING)>>)
    /\ UNCHANGED <<chainName, totalSupply, tokensPerInterval, yearlyRewards,
                   baseApr, calc>>

\* line 30 is outside the try: a rejected notify rejects the call
CheckingRejected(i) ==
    /\ pc[i] = "notifyChecking"
    /\ \E o \in Outcomes({<<>>}) :
          /\ o.threw
          /\ Settle(i, Rejected(o.error), <<Event("settled", CHECKING, o)>>)
    /\ UNCHANGED <<chainName, locals, calc>>

\* lines 32-50: getProvider and getContract, then notify
CheckingResolved(i) ==
    /\ pc[i] = "notifyChecking"
    /\ \E p \in Outcomes({<<>>}) :
          LET es == <<Event("settled", CHECKING, Returned),
                      Event("getProvider", "", p)>>
          IN IF p.threw
             THEN Settle(i, Catch(p.error), es)
             ELSE Await(i, "notifyFetchingSupply", {"notify"},
                        Append(es, Issue("notify", FETCHING_SUPPLY)))
    /\ UNCHANGED <<chainName, locals, calc>>

\* lines 50-51: the notify settles; the totalSupply read is issued
FetchingSupplySettled(i) ==
    /\ pc[i] = "notifyFetchingSupply"
    /\ \E o \in Outcomes({<<>>}) :
          LET es == <<Event("settled", FETCHING_SUPPLY, o)>>
          IN IF o.threw
             THEN Settle(i, Catch(o.error), es)
             ELSE Await(i, "totalSupply",
                        {ReadsAtLine51[k] : k \in 1..Len(ReadsAtLine51)},
                        es \o IssueReads(ReadsAtLine51))
    /\ UNCHANGED <<chainName, locals, calc>>

\* lines 51-53: the read settles; notify
TotalSupplySettled(i) ==
    /\ pc[i] = "totalSupply"
    /\ "totalSupply" \in inflight[i]
    /\ \E o \in Outcomes(SupplyReads) :
          LET es == <<Event("settled", "totalSupply", o)>>
          IN IF o.threw
             THEN /\ Settle(i, Catch(o.error), es)
                  /\ UNCHANGED totalSupply
             ELSE /\ totalSupply' = Assign(totalSupply, i, o.value)
                  /\ Await(i, "notifyFetchingTokens",
                           (inflight[i] \ {"totalSupply"}) \cup {"notify"},
                           Append(es, Issue("notify", FETCHING_TOKENS)))
    /\ UNCHANGED <<chainName, chainId, tokensPerInterval, yearlyRewards, baseApr,
                   calc>>

\* lines 53-54: the notify settles; the tokensPerInterval read is issued
FetchingTokensSettled(i) ==
    /\ pc[i] = "notifyFetchingTokens"
    /\ \E o \in Outcomes({<<>>}) :
          LET es == <<Event("settled", FETCHING_TOKENS, o)>>
          IN IF o.threw
             THEN Settle(i, Catch(o.error), es)
             ELSE Await(i, "tokensPerInterval",
                        (inflight[i] \ {"notify"})
                        \cup {ReadsAtLine54[k] : k \in 1..Len(ReadsAtLine54)},
                        es \o IssueReads(ReadsAtLine54))
    /\ UNCHANGED <<chainName, locals, calc>>

\* lines 54-62: the read settles; yearly rewards and base APR; notify
TokensPerIntervalSettled(i) ==
    /\ pc[i] = "tokensPerInterval"
    /\ "tokensPerInterval" \in inflight[i]
    /\ \E o \in Outcomes(TokenReads) :
          LET es == <<Event("settled", "tokensPerInterval", o)>>
              c  == Calculate(totalSupply[i], o.value)
          IN IF o.threw
             THEN /\ Settle(i, Catch(o.error), es)
                  /\ UNCHANGED <<tokensPerInterval, yearlyRewards, baseApr>>
             ELSE /\ tokensPerInterval' = Assign(tokensPerInterval, i, o.value)
                  /\ yearlyRewards' = Assign(yearlyRewards, i, c.yearlyRewards)
                  /\ baseApr' = Assign(baseApr, i, c.baseApr)
                  /\ IF c.threw
                     THEN Settle(i, Catch(c.error), es)
                     ELSE Await(i, "notifyCompleted", {"notify"},
                                Append(es, Issue("notify", COMPLETED)))
    /\ UNCHANGED <<chainName, chainId, totalSupply, calc>>

\* lines 62-71: the notify settles; the result is returned
CompletedSettled(i) ==
    /\ pc[i] = "notifyCompleted"
    /\ \E o \in Outcomes({<<>>}) :
          LET es == <<Event("settled", COMPLETED, o)>>
          IN IF o.threw
             THEN Settle(i, Catch(o.error), es)
             ELSE Settle(i, Success(baseApr[i], yearlyRewards[i], totalSupply[i],
                                    tokensPerInterval[i]), es)
    /\ UNCHANGED <<chainName, locals, calc>>

Next ==
    \E i \in Invocations :
        \/ Validate(i)
        \/ CheckingRejected(i)
        \/ CheckingResolved(i)
        \/ FetchingSupplySettled(i)
        \/ TotalSupplySettled(i)
        \/ FetchingTokensSettled(i)
        \/ TokensPerIntervalSettled(i)
        \/ CompletedSettled(i)

Spec == Init /\ [][Next]_vars

(***************************************************************************)
(* SpecCalc: lines 56-77 as a function of the two values read, applied to  *)
(* two pairs of reads at a time, so that two results can be compared.  The *)
(* pairs differ in at most one of the two reads.  The reads are uint256:   *)
(* a few units, and values that reach the edges of the arithmetic.         *)
(***************************************************************************)
MaxUnits == 2

\* one more than 800 years of 10^15 tokens per second: the base APR is a hair
\* under 0.125
NearEighth == BigAdd(MulSmall(YearlyRewards(Pow10(15)), 800), <<1>>)

CalcSupplies ==
    {FromInt(k) : k \in 0..MaxUnits} \cup {<<7>>, Million, NearEighth, MaxUint256}

CalcTokens ==
    {FromInt(k) : k \in 0..MaxUnits}
    \cup {Pow10(10), Pow10(15), ShiftLeft(<<1>>, 255), MaxUint256}

CalcInputs == [totalSupply : CalcSupplies, tokensPerInterval : CalcTokens]

\* lines 56-77: what the call returns once both reads have returned
ResultOf(reads) ==
    LET Return(c) ==
            IF c.threw THEN Catch(c.error)
            ELSE Success(c.baseApr, c.yearlyRewards, reads.totalSupply,
                         reads.tokensPerInterval)
    IN Return(Calculate(reads.totalSupply, reads.tokensPerInterval))

InitCalc ==
    /\ Called
    /\ chainName = [i \in Invocations |-> SONIC]
    /\ calcInput \in {p \in CalcInputs \X CalcInputs :
                          \/ p[1].totalSupply = p[2].totalSupply
                          \/ p[1].tokensPerInterval = p[2].tokensPerInterval}
    /\ calcOutput = <<>>

Calc ==
    /\ calcInput # <<>>
    /\ calcOutput = <<>>
    /\ calcOutput' = <<ResultOf(calcInput[1]), ResultOf(calcInput[2])>>
    /\ UNCHANGED <<calcInput, calls>>

NextCalc == Calc

SpecCalc == InitCalc /\ [][NextCalc]_vars

(***************************************************************************)
(* What the properties below read off a state.                             *)
(***************************************************************************)
Mentions(message, word) == \E k \in 1..Len(message) : message[k] = word

\* the positions in invocation i's trace of the events that satisfy Is
Positions(i, Is(_)) == {k \in 1..Len(trace[i]) : Is(trace[i][k])}

IsNotify(e) == e.op = "notify"

IsReadIssued(e) == e.op = "read"

IsReadSettled(e) == e.op = "settled" /\ e.arg \in {"totalSupply", "tokensPerInterval"}

IsReadThrown(e) == IsReadSettled(e) /\ e.threw

IsTotalSupplyRead(e) == e.op = "settled" /\ e.arg = "totalSupply" /\ ~e.threw

IsTokensPerIntervalRead(e) ==
    e.op = "settled" /\ e.arg = "tokensPerInterval" /\ ~e.threw

IsProviderOrRead(e) == e.op \in {"getProvider", "read"}

IsThrown(e) == e.threw

\* the value invocation i's own read returned
ReadValue(i, Is(_)) == trace[i][CHOOSE k \in Positions(i, Is) : TRUE].value

IsDecimal(s) ==
    /\ Len(s) >= 1
    /\ \A k \in 1..Len(s) : \E d \in 1..10 : DigitChar[d] = s[k]
    /\ Len(s) > 1 => s[1] # "0"

DigitValue(c) == CHOOSE d \in 0..9 : DigitChar[d + 1] = c

\* the integer that digits lo..hi of s denote
RECURSIVE ParseFrom(_, _, _)
ParseFrom(s, lo, hi) ==
    IF lo = hi THEN FromInt(DigitValue(s[lo]))
    ELSE BigAdd(BigMul(ParseFrom(s, lo, lo + (hi - lo) \div 2),
                       Pow10(hi - (lo + (hi - lo) \div 2))),
                ParseFrom(s, lo + (hi - lo) \div 2 + 1, hi))

ParseDecimal(s) == ParseFrom(s, 1, Len(s))

IsNotPoint(c) == c # "."

\* a decimal with exactly two fractional digits
IsTwoDecimals(b) ==
    /\ b.notation = "fixed"
    /\ Len(b.text) >= 4
    /\ b.text[Len(b.text) - 2] = "."
    /\ IsDecimal(SubSeq(b.text, 1, Len(b.text) - 3))
    /\ \A k \in (Len(b.text) - 1)..Len(b.text) : \E d \in 1..10 : DigitChar[d] = b.text[k]

\* 100 times the value the returned baseApr denotes
Hundredths(b) ==
    IF b.notation = "fixed" THEN ParseDecimal(SelectSeq(b.text, IsNotPoint))
    ELSE MulSmall(ToBigInt(b.value), 100)

Distance(a, b) == IF BigCmp(a, b) >= 0 THEN BigSub(a, b) ELSE BigSub(b, a)

(***************************************************************************)
(* C1.  Whatever fails, the call returns a result: no invocation's promise *)
(* is ever rejected.  Line 30 awaits notify before the try block is        *)
(* entered, so a notify that throws there rejects the promise.             *)
(***************************************************************************)
C1_AlwaysReturnsAResult == \A i \in Invocations : result[i].state # "rejected"

(***************************************************************************)
(* C2 as stated.  A call whose chainName is not the supported network      *)
(* returns a failure whose message mentions the name given, and resolves   *)
(* no provider and issues no read.                                         *)
(***************************************************************************)
C2_FailureNamesTheGivenNetwork ==
    \A i \in Invocations :
        chainName[i] # SONIC /\ pc[i] = "settled" =>
            /\ result[i].state = "fulfilled"
            /\ ~result[i].success
            /\ Mentions(result[i].message, chainName[i])
            /\ Positions(i, IsProviderOrRead) = {}

(***************************************************************************)
(* C2 amended.  A call whose chainName is not the supported network        *)
(* returns a failure and resolves no provider and issues no read.  The     *)
(* message names the given network when the name resolves to no chain;     *)
(* when it resolves to a chain other than Sonic the message is the fixed   *)
(* text of line 27, which names Sonic and not the network given.           *)
(***************************************************************************)
C2_FailureNamesTheNetworkOrSonic ==
    \A i \in Invocations :
        /\ chainName[i] # SONIC => Positions(i, IsProviderOrRead) = {}
        /\ chainName[i] # SONIC /\ pc[i] = "settled" =>
               /\ result[i].state = "fulfilled"
               /\ ~result[i].success
               /\ IF chainId[i] = 0
                  THEN Mentions(result[i].message, chainName[i])
                  ELSE /\ ~Mentions(result[i].message, chainName[i])
                       /\ Mentions(result[i].message, "Sonic")

C2_BothKindsRefused ==
    \E i, j \in Invocations :
        /\ pc[i] = "settled" /\ chainName[i] # SONIC /\ chainId[i] = 0
        /\ pc[j] = "settled" /\ chainName[j] # SONIC /\ chainId[j] # 0

(***************************************************************************)
(* C3.  When the totalSupply read or the tokensPerInterval read throws,    *)
(* the call returns a failure (not a success, not a rejection) whose       *)
(* message carries the Error's message, or 'Unknown error' when the value  *)
(* thrown is not an Error.                                                 *)
(***************************************************************************)
C3_ReadFailuresAreReturned ==
    \A i \in Invocations :
        \A k \in Positions(i, IsReadThrown) :
            /\ result[i].state = "fulfilled"
            /\ ~result[i].success
            /\ Mentions(result[i].message,
                        IF trace[i][k].error.isError THEN trace[i][k].error.message
                        ELSE "Unknown error")

C3_BothReadsHaveThrown ==
    \E i, j \in Invocations :
        /\ \E k \in Positions(i, IsReadThrown) :
              trace[i][k].arg = "totalSupply" /\ trace[i][k].error.isError
        /\ \E k \in Positions(j, IsReadThrown) :
              trace[j][k].arg = "tokensPerInterval" /\ ~trace[j][k].error.isError

(***************************************************************************)
(* C4.  When the totalSupply read returns zero the call is never rejected  *)
(* and never succeeds, and once the tokensPerInterval read has returned,   *)
(* whatever its value, the call has returned a failure.                    *)
(***************************************************************************)
C4_ZeroSupplyIsAFailure ==
    \A i \in Invocations :
        totalSupply[i] = <<>> =>
            /\ result[i].state # "rejected"
            /\ ~result[i].success
            /\ Positions(i, IsTokensPerIntervalRead) # {} =>
                   pc[i] = "settled" /\ result[i].state = "fulfilled"

C4_ZeroSupplyDivided ==
    \E i \in Invocations :
        /\ totalSupply[i] = <<>>
        /\ tokensPerInterval[i] = MaxUint256
        /\ result[i].state = "fulfilled"
        /\ ~result[i].success

(***************************************************************************)
(* C5.  For every totalSupply > 0 and tokensPerInterval >= 0 the returned  *)
(* baseApr is a decimal with two fractional digits that is                 *)
(* yearlyRewards * 100 / totalSupply rounded to two decimals: it is within *)
(* half a hundredth of the exact quotient (either neighbour on a tie).     *)
(***************************************************************************)
C5_RoundsTheExactQuotient ==
    \A k \in 1..Len(calcOutput) :
        calcOutput[k].success =>
            /\ IsTwoDecimals(calcOutput[k].json.baseApr)
            /\ BigCmp(MulSmall(Distance(BigMul(Hundredths(calcOutput[k].json.baseApr),
                                               calcInput[k].totalSupply),
                                        MulSmall(BigMul(calcInput[k].tokensPerInterval,
                                                        FromInt(SECONDS_PER_YEAR)),
                                                 10000)),
                               2),
                      calcInput[k].totalSupply) <= 0

\* the example of the specification: totalSupply 1000000, tokensPerInterval 1
C5_ExampleIsRounded ==
    /\ calcOutput # <<>>
    /\ calcInput[1] = [totalSupply |-> Million, tokensPerInterval |-> <<1>>]
    /\ calcOutput[1].json.baseApr.text = <<"3", "1", "5", "3", ".", "6", "0">>

(***************************************************************************)
(* C6.  In a success result totalSupply and tokensPerInterval are the      *)
(* values the invocation's own two reads returned, yearlyRewards is        *)
(* tokensPerInterval * SECONDS_PER_YEAR, and the three are non-negative    *)
(* base-10 integers, at full width.                                        *)
(***************************************************************************)
C6_FieldsAreTheReads ==
    \A i \in Invocations :
        result[i].success =>
            /\ IsDecimal(result[i].json.totalSupply)
            /\ IsDecimal(result[i].json.tokensPerInterval)
            /\ IsDecimal(result[i].json.yearlyRewards)
            /\ ParseDecimal(result[i].json.totalSupply)
                   = ReadValue(i, IsTotalSupplyRead)
            /\ ParseDecimal(result[i].json.tokensPerInterval)
                   = ReadValue(i, IsTokensPerIntervalRead)
            /\ ParseDecimal(result[i].json.yearlyRewards)
                   = BigMul(ReadValue(i, IsTokensPerIntervalRead),
                            FromInt(SECONDS_PER_YEAR))

\* a success whose yearlyRewards does not fit in 256 bits
C6_YearlyRewardsBeyondUint256 ==
    \E i \in Invocations :
        /\ result[i].success
        /\ ReadValue(i, IsTokensPerIntervalRead) = MaxUint256
        /\ BigCmp(ParseDecimal(result[i].json.yearlyRewards), MaxUint256) > 0

(***************************************************************************)
(* C7.  Of two successful calls with the same totalSupply, the one with    *)
(* the larger tokensPerInterval does not return the smaller baseApr; of    *)
(* two with the same tokensPerInterval, the one with the larger            *)
(* totalSupply does not return the larger baseApr.                         *)
(***************************************************************************)
C7_Monotone ==
    calcOutput # <<>> /\ calcOutput[1].success /\ calcOutput[2].success =>
        /\ /\ calcInput[1].totalSupply = calcInput[2].totalSupply
           /\ BigCmp(calcInput[1].tokensPerInterval, calcInput[2].tokensPerInterval) <= 0
           => BigCmp(Hundredths(calcOutput[1].json.baseApr),
                     Hundredths(calcOutput[2].json.baseApr)) <= 0
        /\ /\ calcInput[1].tokensPerInterval = calcInput[2].tokensPerInterval
           /\ BigCmp(calcInput[1].totalSupply, calcInput[2].totalSupply) <= 0
           => BigCmp(Hundredths(calcOutput[1].json.baseApr),
                     Hundredths(calcOutput[2].json.baseApr)) >= 0

\* a larger supply has returned a strictly smaller baseApr
C7_SupplyLowersApr ==
    /\ calcOutput # <<>> /\ calcOutput[1].success /\ calcOutput[2].success
    /\ calcInput[1].tokensPerInterval = calcInput[2].tokensPerInterval
    /\ BigCmp(calcInput[1].totalSupply, calcInput[2].totalSupply) < 0
    /\ BigCmp(Hundredths(calcOutput[1].json.baseApr),
              Hundredths(calcOutput[2].json.baseApr)) > 0

(***************************************************************************)
(* C8 as stated.  A successful call emits four notifications in order:     *)
(* chain validation before the first read, fetch-start before the reads,   *)
(* fetch-complete after both reads have completed, calculation-complete    *)
(* after that and before the return.                                       *)
(***************************************************************************)
C8_FetchCompleteIsNotified ==
    \A i \in Invocations :
        result[i].success =>
            \E k1, k2, k3, k4 \in Positions(i, IsNotify) :
                /\ k1 < k2 /\ k2 < k3 /\ k3 < k4
                /\ \A r \in Positions(i, IsReadIssued) : k1 < r
                /\ \E r \in Positions(i, IsReadIssued) : k2 < r
                /\ \A r \in Positions(i, IsReadSettled) : r < k3

(***************************************************************************)
(* C8 amended.  A successful call emits exactly four notifications, each   *)
(* awaited before the next step: 'Checking ALP APR information...' after   *)
(* the chain is validated and before the provider is resolved, 'Fetching   *)
(* total supply...' before the totalSupply read, 'Fetching tokens per      *)
(* interval...' after that read has returned and before the                *)
(* tokensPerInterval read, and 'APR calculation completed' after both      *)
(* reads and the APR computation and before the return.  No notification   *)
(* announces that the reads are complete.                                  *)
(***************************************************************************)
C8_NotificationsInOrder ==
    \A i \in Invocations :
        /\ result[i].success =>
               [k \in 1..Len(trace[i]) |-> <<trace[i][k].op, trace[i][k].arg>>]
               = << <<"notify", "Checking ALP APR information...">>,
                    <<"settled", "Checking ALP APR information...">>,
                    <<"getProvider", "">>,
                    <<"notify", "Fetching total supply...">>,
                    <<"settled", "Fetching total supply...">>,
                    <<"read", "totalSupply">>,
                    <<"settled", "totalSupply">>,
                    <<"notify", "Fetching tokens per interval...">>,
                    <<"settled", "Fetching tokens per interval...">>,
                    <<"read", "tokensPerInterval">>,
                    <<"settled", "tokensPerInterval">>,
                    <<"notify", "APR calculation completed">>,
                    <<"settled", "APR calculation completed">> >>
        /\ \A k \in Positions(i, IsNotify) :
               trace[i][k].arg = "APR calculation completed" =>
                   baseApr[i] # UndefinedNumber

C8_SucceededAfterFourNotifications ==
    \E i \in Invocations :
        result[i].success /\ Cardinality(Positions(i, IsNotify)) = 4

(***************************************************************************)
(* C9.  Invocations are independent under every interleaving: a step       *)
(* changes the parameters, locals, promise and calls of one invocation     *)
(* only, and how an invocation ends is decided by its own chainName and    *)
(* by what its own calls returned or threw.                                *)
(***************************************************************************)
C9_Own(i) ==
    <<pc[i], chainName[i], chainId[i], totalSupply[i], tokensPerInterval[i],
      yearlyRewards[i], baseApr[i], result[i], trace[i], inflight[i]>>

C9_StepIsLocal ==
    \E i \in Invocations : \A j \in Invocations \ {i} : C9_Own(j)' = C9_Own(j)

C9_Decided(i) ==
    IF GetChainFromName(chainName[i]) = 0 THEN NetworkNotSupported(chainName[i])
    ELSE IF chainName[i] # SONIC THEN OnlySupportedOnSonic
    ELSE IF Positions(i, IsThrown) # {}
    THEN LET e == trace[i][CHOOSE k \in Positions(i, IsThrown) : TRUE]
         IN IF e.arg = "Checking ALP APR information..." THEN Rejected(e.error)
            ELSE Catch(e.error)
    ELSE ResultOf([totalSupply |-> ReadValue(i, IsTotalSupplyRead),
                   tokensPerInterval |-> ReadValue(i, IsTokensPerIntervalRead)])

C9_OwnInputsDecide ==
    \A i \in Invocations : pc[i] = "settled" => result[i] = C9_Decided(i)

C9_Independent == []C9_OwnInputsDecide /\ [][C9_StepIsLocal]_vars

\* two concurrent invocations on Sonic have ended differently
C9_TwoOutcomes ==
    \E i, j \in Invocations :
        /\ chainName[i] = SONIC /\ chainName[j] = SONIC
        /\ result[i].success
        /\ result[j].state = "fulfilled" /\ ~result[j].success
        /\ Positions(j, IsTotalSupplyRead) # {}

(***************************************************************************)
(* C10.  Within an invocation the two reads are never in flight together,  *)
(* the tokensPerInterval read is issued only after the totalSupply read    *)
(* has returned, and not at all when the totalSupply read has thrown.      *)
(***************************************************************************)
C10_ReadsAreSequential ==
    \A i \in Invocations :
        /\ ~({"totalSupply", "tokensPerInterval"} \subseteq inflight[i])
        /\ \A k \in Positions(i, IsReadIssued) :
               trace[i][k].arg = "tokensPerInterval" =>
                   \E r \in Positions(i, IsTotalSupplyRead) : r < k
        /\ (\E r \in Positions(i, IsReadThrown) : trace[i][r].arg = "totalSupply") =>
               \A k \in Positions(i, IsReadIssued) : trace[i][k].arg # "tokensPerInterval"

C10_SecondReadInFlight ==
    \E i \in Invocations :
        /\ inflight[i] = {"tokensPerInterval"}
        /\ Positions(i, IsTotalSupplyRead) # {}

====
